---- MODULE Spec2Model ----
(***************************************************************************)
(* One request to calculate_planetary_positions: validation of the birth   *)
(* fields, LocationResolver.get_coordinates (three Nominatim queries, then *)
(* manual entry), and VedicCalculatorEngine.calculate_positions.           *)
(*                                                                         *)
(* Python values are modelled as follows.                                  *)
(*   Optional[x]   a sequence of length 0 (None) or 1 (<<x>>)              *)
(*   str (number)  a record [numeric, val]: what int()/float() makes of it *)
(*   float (coord) a record [nan, val], val in whole degrees               *)
(*   longitude     an integer number of ticks, TicksPerDegree per degree   *)
(*   exception     a record [cls, msg], msg a sequence of text fragments   *)
(*   f-string      the sequence of its fragments                           *)
(***************************************************************************)
EXTENDS Integers, Sequences, FiniteSets, TLC

VARIABLES
    request,        \* the nine arguments of calculate_planetary_positions
    pc,             \* where the call is
    birth_data,     \* Optional: the dict returned by _validate_birth_data
    waits,          \* how many time.sleep(request_delay) have been completed
    queries,        \* the query strings sent to Nominatim so far, in order
    response,       \* Optional: the outcome of the last Nominatim request,
                    \* forgotten when manual entry is over
    attempt,        \* loop variable of _get_manual_coordinates
    prompts,        \* the input() prompts shown so far, in order
    lat_input,      \* Optional: the latitude text last read
    lon_input,      \* Optional: the longitude text last read
    coordinates,    \* Optional: what get_coordinates returned
    source,         \* "none", "nominatim" or "manual": who gave coordinates
    julian_day,     \* Optional: the instant handed to the ephemeris
    calls,          \* the ephemeris calls made so far, in order
    results,        \* the list built by the engine
    returned,       \* Optional: the dict returned to the caller
    escaped,        \* Optional: the exception that left the call
    probe,          \* Optional: the arguments of a function applied on its own
    probed          \* Optional: what that function gave

vars == <<request, pc, birth_data, waits, queries, response, attempt, prompts,
          lat_input, lon_input, coordinates, source, julian_day, calls, results,
          returned, escaped, probe, probed>>

(***************************************************************************)
(* Bounds of the model.                                                    *)
(***************************************************************************)
\* resolution of a longitude: ticks per degree
TicksPerDegree == 8
\* how many whole turns the ephemeris values of the model are off by
MaxTurns == 2

(***************************************************************************)
(* Text and numbers.                                                       *)
(***************************************************************************)
\* a string that int() / float() parses to n
Text(n) == [numeric |-> TRUE, empty |-> FALSE, nan |-> FALSE, val |-> n]
\* a non-empty string that int() and float() reject, such as "abc"
BadText == [numeric |-> FALSE, empty |-> FALSE, nan |-> FALSE, val |-> 0]
\* the empty string (after strip)
EmptyText == [numeric |-> FALSE, empty |-> TRUE, nan |-> FALSE, val |-> 0]
\* the string "nan": float() accepts it, int() rejects it
NanText == [numeric |-> FALSE, empty |-> FALSE, nan |-> TRUE, val |-> 0]

Float(n) == [nan |-> FALSE, val |-> n]
NaN == [nan |-> TRUE, val |-> 0]

Exc(cls, msg) == [cls |-> cls, msg |-> msg]

\* classes that "except ValueError" catches
ValueErrorClasses == {"ValueError", "JSONDecodeError"}
\* classes that "except requests.exceptions.RequestException" catches
RequestExceptionClasses == {"ConnectionError", "Timeout", "HTTPError", "JSONDecodeError"}
\* classes that "except Exception" catches: all of the model but
\* KeyboardInterrupt, which derives from BaseException only
ExceptionClasses ==
    ValueErrorClasses \cup RequestExceptionClasses \cup
    {"TypeError", "KeyError", "IndexError", "EOFError", "swisseph.Error"}

IntLiteralMessage == <<"invalid literal for int() with base 10: ">>

\* int(text)
PyInt(t) ==
    IF t.numeric
    THEN [ok |-> TRUE, val |-> t.val, exc |-> Exc("", <<>>)]
    ELSE [ok |-> FALSE, val |-> 0, exc |-> Exc("ValueError", IntLiteralMessage)]

\* float(text) for a string
PyFloat(t) ==
    IF t.numeric THEN [ok |-> TRUE, val |-> Float(t.val), exc |-> Exc("", <<>>)]
    ELSE IF t.nan THEN [ok |-> TRUE, val |-> NaN, exc |-> Exc("", <<>>)]
    ELSE [ok |-> FALSE, val |-> NaN,
          exc |-> Exc("ValueError", <<"could not convert string to float: ">>)]

(***************************************************************************)
(* planetary_position_calculator._validate_birth_data                      *)
(***************************************************************************)
FieldNames == <<"year", "month", "day", "hour", "minute">>

RangeError(label, lo, hi, got) ==
    Exc("ValueError",
        <<label, " must be between ", ToString(lo), " and ", ToString(hi),
          ", got ", ToString(got)>>)

\* the test of line 142 looking for a text no message of int() has
HasInvalidNumber(e) == Len(e.msg) > 0 /\ e.msg[1] = "invalid number"

\* "invalid literal" in str(e)
HasInvalidLiteral(e) == Len(e.msg) > 0 /\ e.msg[1] = IntLiteralMessage[1]

GenericMessage == <<"All birth data must be valid numbers">>

\* lines 124-137 with the off-by-one "minute <= 60"
RangeChecksMinute60 ==
    << [field |-> "year", label |-> "Year", lo |-> 1900, hi |-> 2100],
       [field |-> "month", label |-> "Month", lo |-> 1, hi |-> 12],
       [field |-> "day", label |-> "Day", lo |-> 1, hi |-> 31],
       [field |-> "hour", label |-> "Hour", lo |-> 0, hi |-> 23],
       [field |-> "minute", label |-> "Minute", lo |-> 0, hi |-> 60] >>

\* lines 124-137 with the off-by-one "year <= 2101"
RangeChecksYear2101 ==
    << [field |-> "year", label |-> "Year", lo |-> 1900, hi |-> 2101],
       [field |-> "month", label |-> "Month", lo |-> 1, hi |-> 12],
       [field |-> "day", label |-> "Day", lo |-> 1, hi |-> 31],
       [field |-> "hour", label |-> "Hour", lo |-> 0, hi |-> 23],
       [field |-> "minute", label |-> "Minute", lo |-> 0, hi |-> 59] >>

\* lines 124-137 with the day checked before the month
RangeChecksDayFirst ==
    << [field |-> "year", label |-> "Year", lo |-> 1900, hi |-> 2100],
       [field |-> "day", label |-> "Day", lo |-> 1, hi |-> 31],
       [field |-> "month", label |-> "Month", lo |-> 1, hi |-> 12],
       [field |-> "hour", label |-> "Hour", lo |-> 0, hi |-> 23],
       [field |-> "minute", label |-> "Minute", lo |-> 0, hi |-> 59] >>

\* lines 124-137: the range checks, in the order of the code
RangeChecks ==
    << [field |-> "year", label |-> "Year", lo |-> 1900, hi |-> 2100],
       [field |-> "month", label |-> "Month", lo |-> 1, hi |-> 12],
       [field |-> "day", label |-> "Day", lo |-> 1, hi |-> 31],
       [field |-> "hour", label |-> "Hour", lo |-> 0, hi |-> 23],
       [field |-> "minute", label |-> "Minute", lo |-> 0, hi |-> 59] >>

\* the body of the try block: the first exception raised, or the dict
ValidateBody(year, month, day, hour, minute) ==
    LET fields == <<year, month, day, hour, minute>>
        bad == {i \in 1..5 : ~PyInt(fields[i]).ok}
        d == [n \in {"year", "month", "day", "hour", "minute"} |->
                PyInt(fields[CHOOSE i \in 1..5 : FieldNames[i] = n]).val]
        failed == {k \in DOMAIN RangeChecks :
                     ~(RangeChecks[k].lo <= d[RangeChecks[k].field]
                       /\ d[RangeChecks[k].field] <= RangeChecks[k].hi)}
        first == RangeChecks[CHOOSE k \in failed : \A j \in failed : k <= j]
    IN  IF bad # {}
        THEN [ok |-> FALSE, data |-> d,
              exc |-> PyInt(fields[CHOOSE i \in bad : \A j \in bad : i <= j]).exc]
        ELSE IF failed # {}
        THEN [ok |-> FALSE, data |-> d,
              exc |-> RangeError(first.label, first.lo, first.hi, d[first.field])]
        ELSE [ok |-> TRUE, data |-> d, exc |-> Exc("", <<>>)]

\* the whole function, with its except clause
validate_birth_data(year, month, day, hour, minute) ==
    LET r == ValidateBody(year, month, day, hour, minute)
    IN  IF ~r.ok /\ HasInvalidLiteral(r.exc)
        THEN [r EXCEPT !.exc = Exc("ValueError", GenericMessage)]
        ELSE r

(***************************************************************************)
(* calculate_planetary_positions: the two except clauses and the returns   *)
(***************************************************************************)
InvalidPrefix == "Invalid birth data: "
FailedPrefix == "Calculation failed: "
LocationPrefix == "Could not resolve location: "

Failure(prefix, msg) == [success |-> FALSE, error |-> <<prefix>> \o msg]

\* the function without its last clause, "except Exception"
RaiseValueErrorOnly(e) ==
    /\ pc' = "done"
    /\ IF e.cls \in ValueErrorClasses
       THEN returned' = <<Failure(InvalidPrefix, e.msg)>> /\ escaped' = <<>>
       ELSE returned' = <<>> /\ escaped' = <<e>>

\* an exception raised inside the try block of calculate_planetary_positions
Raise(e) ==
    /\ pc' = "done"
    /\ IF e.cls \in ValueErrorClasses
       THEN returned' = <<Failure(InvalidPrefix, e.msg)>> /\ escaped' = <<>>
       ELSE IF e.cls \in ExceptionClasses
       THEN returned' = <<Failure(FailedPrefix, e.msg)>> /\ escaped' = <<>>
       ELSE returned' = <<>> /\ escaped' = <<e>>

(***************************************************************************)
(* The requests of the model.                                              *)
(***************************************************************************)
YearTexts == {BadText, Text(1899), Text(1900), Text(2100), Text(2101)}
MonthTexts == {BadText, Text(0), Text(2), Text(12), Text(13)}
DayTexts == {BadText, Text(0), Text(1), Text(31), Text(32)}
HourTexts == {BadText, Text(-1), Text(4), Text(24)}
MinuteTexts == {BadText, Text(-1), Text(59), Text(60)}

Requests ==
    [birth_year : YearTexts, birth_month : MonthTexts, birth_day : DayTexts,
     birth_hour : HourTexts, birth_minute : MinuteTexts,
     district : {"kannur"}, state : {"kerala"}, country : {"India"},
     user_name : {"User"}]

Init ==
    /\ request \in Requests
    /\ pc = "validate"
    /\ birth_data = <<>>
    /\ waits = 0
    /\ queries = <<>>
    /\ response = <<>>
    /\ attempt = 0
    /\ prompts = <<>>
    /\ lat_input = <<>>
    /\ lon_input = <<>>
    /\ coordinates = <<>>
    /\ source = "none"
    /\ julian_day = <<>>
    /\ calls = <<>>
    /\ results = <<>>
    /\ returned = <<>>
    /\ escaped = <<>>
    /\ probe = <<>>
    /\ probed = <<>>

\* lines 53-56: validate and convert the input parameters
ValidateBirthData ==
    /\ pc = "validate"
    /\ LET r == validate_birth_data(request.birth_year, request.birth_month,
                                    request.birth_day, request.birth_hour,
                                    request.birth_minute)
       IN  IF r.ok
           THEN /\ birth_data' = <<r.data>>
                /\ pc' = "query"
                /\ UNCHANGED <<returned, escaped>>
           ELSE /\ Raise(r.exc)
                /\ UNCHANGED birth_data
    /\ UNCHANGED <<probe, probed, waits>>
    /\ UNCHANGED <<request, queries, response, attempt, prompts, lat_input,
                   lon_input, coordinates, source, julian_day, calls, results>>

(***************************************************************************)
(* location_resolver.LocationResolver                                      *)
(***************************************************************************)
\* JSON values of the 'lat' and 'lon' members
JsonString(t) == [json |-> "string", text |-> t]
JsonNumber(n) == [json |-> "number", text |-> Text(n)]
JsonNull == [json |-> "null", text |-> EmptyText]
JsonAbsent == [json |-> "absent", text |-> EmptyText]

\* float(result['lat']) for a member that is present
JsonFloat(v) ==
    IF v.json = "null"
    THEN [ok |-> FALSE, val |-> NaN,
          exc |-> Exc("TypeError", <<"float() argument must be a string or a real number, not 'NoneType'">>)]
    ELSE PyFloat(v.text)

\* the outcome of time.sleep, requests.get, raise_for_status and response.json
Outcome(kind, lat, lon) == [kind |-> kind, lat |-> lat, lon |-> lon]

\* the (lat, lon) members of the first array element, in the model
GeoPairs ==
    { <<JsonString(Text(-90)), JsonString(Text(-180))>>,
      <<JsonString(Text(90)), JsonString(Text(180))>>,
      <<JsonNumber(90), JsonNumber(180)>>,
      <<JsonString(Text(91)), JsonString(Text(0))>>,
      <<JsonString(Text(-91)), JsonString(Text(0))>>,
      <<JsonString(Text(0)), JsonString(Text(181))>>,
      <<JsonString(Text(0)), JsonString(Text(-181))>>,
      <<JsonString(NanText), JsonString(Text(0))>>,
      <<JsonString(BadText), JsonString(Text(0))>>,
      <<JsonString(Text(0)), JsonString(EmptyText)>>,
      <<JsonNull, JsonString(Text(0))>>,
      <<JsonString(Text(0)), JsonNull>>,
      <<JsonAbsent, JsonString(Text(0))>>,
      <<JsonString(Text(0)), JsonAbsent>> }

\* what a request to Nominatim can come to
Outcomes ==
    { Outcome(k, JsonAbsent, JsonAbsent) :
        k \in {"KeyboardInterrupt", "ConnectionError", "Timeout", "HTTPError",
               "JSONDecodeError", "null", "empty_array", "object", "number",
               "array_of_string"} }
    \cup { Outcome("array_of_object", p[1], p[2]) : p \in GeoPairs }

\* _validate_coordinates testing the latitude twice, the longitude never
validate_coordinates_LatitudeTwice(latitude, longitude) ==
    /\ ~latitude.nan
    /\ -90 <= latitude.val /\ latitude.val <= 90
    /\ -180 <= latitude.val /\ latitude.val <= 180

\* _validate_coordinates
validate_coordinates(latitude, longitude) ==
    /\ ~latitude.nan /\ ~longitude.nan
    /\ -90 <= latitude.val /\ latitude.val <= 90
    /\ -180 <= longitude.val /\ longitude.val <= 180

Returns(c) == [raised |-> FALSE, value |-> c, exc |-> Exc("", <<>>)]
Raises(e) == [raised |-> TRUE, value |-> <<>>, exc |-> e]

\* the try block of _query_nominatim, before its except clauses
QueryBody(o) ==
    IF o.kind \in {"KeyboardInterrupt", "ConnectionError", "Timeout", "HTTPError",
                   "JSONDecodeError"}
    THEN Raises(Exc(o.kind, <<o.kind>>))
    ELSE IF o.kind \in {"null", "empty_array"}
    THEN Returns(<<>>)
    ELSE IF o.kind = "object"
    THEN Raises(Exc("KeyError", <<"0">>))
    ELSE IF o.kind = "number"
    THEN Raises(Exc("TypeError", <<"object of type 'int' has no len()">>))
    ELSE IF o.kind = "array_of_string"
    THEN Raises(Exc("TypeError", <<"string indices must be integers, not 'str'">>))
    ELSE IF o.lat.json = "absent"
    THEN Raises(Exc("KeyError", <<"'lat'">>))
    ELSE IF ~JsonFloat(o.lat).ok
    THEN Raises(JsonFloat(o.lat).exc)
    ELSE IF o.lon.json = "absent"
    THEN Raises(Exc("KeyError", <<"'lon'">>))
    ELSE IF ~JsonFloat(o.lon).ok
    THEN Raises(JsonFloat(o.lon).exc)
    ELSE IF validate_coordinates(JsonFloat(o.lat).val, JsonFloat(o.lon).val)
    THEN Returns(<<JsonFloat(o.lat).val, JsonFloat(o.lon).val>>)
    ELSE Returns(<<>>)

\* the classes the two except clauses of _query_nominatim catch
QueryCaught == RequestExceptionClasses \cup {"KeyError", "ValueError", "IndexError"}

\* _query_nominatim
query_nominatim(o) ==
    LET r == QueryBody(o)
    IN  IF r.raised /\ r.exc.cls \in QueryCaught THEN Returns(<<>>) ELSE r

\* search_queries with the state-level query before the district-level one
search_queries_StateFirst(district, state, country) ==
    << <<district, ", ", state, ", ", country>>,
       <<state, ", ", country>>,
       <<district, ", ", country>> >>

\* search_queries of get_coordinates
search_queries(district, state, country) ==
    << <<district, ", ", state, ", ", country>>,
       <<district, ", ", country>>,
       <<state, ", ", country>> >>

max_attempts == 3

LatTexts == {EmptyText, BadText, NanText, Text(-91), Text(-90), Text(90), Text(91)}
LonTexts == {EmptyText, BadText, NanText, Text(-181), Text(-180), Text(180), Text(181)}
\* input() fails: end of input, or the user interrupts
InputErrors == {"EOFError", "KeyboardInterrupt"}

PlaceText == <<request.district, ", ", request.state, ", ", request.country>>

\* lines 62-66: get_coordinates returned None
ReturnUnresolved ==
    /\ pc' = "done"
    /\ returned' = <<Failure(LocationPrefix, PlaceText)>>
    /\ escaped' = <<>>

\* time.sleep can only end or be interrupted
SleepErrors == {"KeyboardInterrupt"}

\* the wait made before the first request of a call only
PolitenessWaitOnce ==
    /\ pc = "query"
    /\ Len(queries) < 3
    /\ \/ /\ waits' = IF Len(queries) = 0 THEN waits + 1 ELSE waits
          /\ pc' = "request"
          /\ UNCHANGED <<returned, escaped>>
       \/ \E c \in SleepErrors :
            /\ Raise(Exc(c, <<c>>))
            /\ UNCHANGED waits
    /\ UNCHANGED <<probe, probed>>
    /\ UNCHANGED <<request, birth_data, queries, response, attempt, prompts,
                   lat_input, lon_input, coordinates, source, julian_day, calls,
                   results>>

\* _query_nominatim, line 79: the delay before the request
PolitenessWait ==
    /\ pc = "query"
    /\ Len(queries) < 3
    /\ \/ /\ waits' = waits + 1
          /\ pc' = "request"
          /\ UNCHANGED <<returned, escaped>>
       \/ \E c \in SleepErrors :
            /\ Raise(Exc(c, <<c>>))
            /\ UNCHANGED waits
    /\ UNCHANGED <<probe, probed>>
    /\ UNCHANGED <<request, birth_data, queries, response, attempt, prompts,
                   lat_input, lon_input, coordinates, source, julian_day, calls,
                   results>>

\* one pass of the loop of get_coordinates: the rest of _query_nominatim
\* (lines 81-107) and the test of its result
QueryNominatim ==
    /\ pc = "request"
    /\ Len(queries) < 3
    /\ \E o \in Outcomes :
         LET q == search_queries(request.district, request.state, request.country)
             r == query_nominatim(o)
         IN  /\ queries' = Append(queries, q[Len(queries) + 1])
             /\ response' = <<o>>
             /\ IF r.raised
                THEN /\ Raise(r.exc)
                     /\ UNCHANGED <<coordinates, source>>
                ELSE IF r.value # <<>>
                THEN /\ coordinates' = r.value
                     /\ source' = "nominatim"
                     /\ pc' = "engine"
                     /\ UNCHANGED <<returned, escaped>>
                ELSE /\ pc' = IF Len(queries) + 1 = 3 THEN "latitude" ELSE "query"
                     /\ UNCHANGED <<coordinates, source, returned, escaped>>
    /\ UNCHANGED <<probe, probed, waits>>
    /\ UNCHANGED <<request, birth_data, attempt, prompts, lat_input, lon_input,
                   julian_day, calls, results>>

\* _get_manual_coordinates, line 136: the latitude is read
ReadLatitude ==
    /\ pc = "latitude"
    /\ attempt < max_attempts
    /\ prompts' = Append(prompts, "Latitude")
    /\ \/ \E t \in LatTexts :
            /\ lat_input' = <<t>>
            /\ pc' = "longitude"
            /\ UNCHANGED <<returned, escaped>>
       \/ \E c \in InputErrors :
            /\ Raise(Exc(c, <<c>>))
            /\ UNCHANGED lat_input
    /\ response' = IF pc' = "longitude" THEN response ELSE <<>>
    /\ UNCHANGED <<probe, probed, waits>>
    /\ UNCHANGED <<request, birth_data, queries, attempt, lon_input, coordinates,
                   source, julian_day, calls, results>>

\* lines 139-149 once both texts are read
ManualBody(lat, lon) ==
    IF lat.empty \/ lon.empty
    THEN Returns(<<>>)
    ELSE IF ~PyFloat(lat).ok
    THEN Raises(PyFloat(lat).exc)
    ELSE IF ~PyFloat(lon).ok
    THEN Raises(PyFloat(lon).exc)
    ELSE IF validate_coordinates(PyFloat(lat).val, PyFloat(lon).val)
    THEN Returns(<<PyFloat(lat).val, PyFloat(lon).val>>)
    ELSE Returns(<<>>)

\* one attempt of the loop without its "except ValueError"
manual_attempt_NoExcept(lat, lon) == ManualBody(lat, lon)

\* one attempt of the loop, with its "except ValueError"
manual_attempt(lat, lon) ==
    LET r == ManualBody(lat, lon)
    IN  IF r.raised /\ r.exc.cls \in ValueErrorClasses THEN Returns(<<>>) ELSE r

\* _get_manual_coordinates, lines 137-158: the longitude is read and the
\* attempt is settled
ReadLongitude ==
    /\ pc = "longitude"
    /\ prompts' = Append(prompts, "Longitude")
    /\ \/ \E t \in LonTexts :
            LET r == manual_attempt(lat_input[1], t)
            IN  /\ lon_input' = <<t>>
                /\ IF r.raised
                   THEN /\ Raise(r.exc)
                        /\ UNCHANGED <<attempt, coordinates, source>>
                   ELSE IF r.value # <<>>
                   THEN /\ coordinates' = r.value
                        /\ source' = "manual"
                        /\ pc' = "engine"
                        /\ UNCHANGED <<attempt, returned, escaped>>
                   ELSE /\ attempt' = attempt + 1
                        /\ IF attempt + 1 < max_attempts
                           THEN pc' = "latitude" /\ UNCHANGED <<returned, escaped>>
                           ELSE ReturnUnresolved
                        /\ UNCHANGED <<coordinates, source>>
       \/ \E c \in InputErrors :
            /\ Raise(Exc(c, <<c>>))
            /\ UNCHANGED <<attempt, lon_input, coordinates, source>>
    /\ response' = IF pc' = "latitude" THEN response ELSE <<>>
    /\ UNCHANGED <<probe, probed, waits>>
    /\ UNCHANGED <<request, birth_data, queries, lat_input, julian_day, calls,
                   results>>

(***************************************************************************)
(* vedic_calculator_engine.VedicCalculatorEngine and PositionFormatter      *)
(***************************************************************************)
IsLeap(y) == (y % 4 = 0 /\ y % 100 # 0) \/ y % 400 = 0

DaysInMonth(y, m) ==
    IF m = 2 THEN (IF IsLeap(y) THEN 29 ELSE 28)
    ELSE IF m \in {4, 6, 9, 11} THEN 30 ELSE 31

\* the subtraction with every month taken to have 30 days
UtcDatetime_ThirtyDayMonths(b) ==
    LET m == b.hour * 60 + b.minute - (5 * 60 + 30)
        back == m < 0
        d == IF back THEN b.day - 1 ELSE b.day
        mo == IF d < 1 THEN b.month - 1 ELSE b.month
        y == IF mo < 1 THEN b.year - 1 ELSE b.year
        mo2 == IF mo < 1 THEN 12 ELSE mo
        d2 == IF d < 1 THEN 30 ELSE d
        m2 == IF back THEN m + 24 * 60 ELSE m
    IN  [year |-> y, month |-> mo2, day |-> d2,
         hour |-> m2 \div 60, minute |-> m2 % 60]

\* local_datetime - timedelta(hours=5, minutes=30), for a real calendar date
UtcDatetime(b) ==
    LET m == b.hour * 60 + b.minute - (5 * 60 + 30)
        back == m < 0
        d == IF back THEN b.day - 1 ELSE b.day
        mo == IF d < 1 THEN b.month - 1 ELSE b.month
        y == IF mo < 1 THEN b.year - 1 ELSE b.year
        mo2 == IF mo < 1 THEN 12 ELSE mo
        d2 == IF d < 1 THEN DaysInMonth(y, mo2) ELSE d
        m2 == IF back THEN m + 24 * 60 ELSE m
    IN  [year |-> y, month |-> mo2, day |-> d2,
         hour |-> m2 \div 60, minute |-> m2 % 60]

\* _calculate_julian_day with a datetime() that accepts any day of 1..31
calculate_julian_day_AnyDay(b) ==
    LET u == UtcDatetime(b)
    IN  Returns(<<[year |-> u.year, month |-> u.month, day |-> u.day,
                   hour60 |-> u.hour * 60 + u.minute]>>)

\* _calculate_julian_day: the arguments given to swe.julday, the hour as
\* sixtieths (hour + minute / 60.0)
calculate_julian_day(b) ==
    IF b.day > DaysInMonth(b.year, b.month)
    THEN Raises(Exc("ValueError", <<"day is out of range for month">>))
    ELSE LET u == UtcDatetime(b)
         IN  Returns(<<[year |-> u.year, month |-> u.month, day |-> u.day,
                        hour60 |-> u.hour * 60 + u.minute]>>)

\* the table with the true node in place of the mean node
PLANETS_TrueNode ==
    << [id |-> 0, name |-> "Sun"], [id |-> 1, name |-> "Moon"],
       [id |-> 2, name |-> "Mercury"], [id |-> 3, name |-> "Venus"],
       [id |-> 4, name |-> "Mars"], [id |-> 5, name |-> "Jupiter"],
       [id |-> 6, name |-> "Saturn"], [id |-> 11, name |-> "Rahu"] >>

\* PLANETS, in insertion order, with the values of the swe constants
PLANETS ==
    << [id |-> 0, name |-> "Sun"], [id |-> 1, name |-> "Moon"],
       [id |-> 2, name |-> "Mercury"], [id |-> 3, name |-> "Venus"],
       [id |-> 4, name |-> "Mars"], [id |-> 5, name |-> "Jupiter"],
       [id |-> 6, name |-> "Saturn"], [id |-> 10, name |-> "Rahu"] >>

ZODIAC_SIGNS ==
    <<"Aries", "Taurus", "Gemini", "Cancer", "Leo", "Virgo",
      "Libra", "Scorpio", "Sagittarius", "Capricorn", "Aquarius", "Pisces">>

Turn == 360 * TicksPerDegree

\* a value of the ephemeris: ticks, or (tiny) a negative number too small
\* for 360 plus it to differ from 360.0
Lon(t) == [tiny |-> FALSE, ticks |-> t]
NegTiny == [tiny |-> TRUE, ticks |-> 0]

\* x % 360 in floating point
Mod360(x) == IF x.tiny THEN Turn ELSE x.ticks % Turn

\* f"{x:05.0f}": the nearest whole number of degrees, ties to even
RoundHalfEven(l) ==
    LET q == l \div TicksPerDegree
        r == l % TicksPerDegree
    IN  IF 2 * r < TicksPerDegree THEN q
        ELSE IF 2 * r > TicksPerDegree THEN q + 1
        ELSE IF q % 2 = 0 THEN q ELSE q + 1

\* format_position with the minutes rounded to the nearest instead of cut
format_position_RoundMinutes(celestial_body_name, l) ==
    LET sign_index == l \div (30 * TicksPerDegree)
        degrees_in_sign == l % (30 * TicksPerDegree)
        degrees == degrees_in_sign \div TicksPerDegree
        minutes == ((degrees_in_sign - degrees * TicksPerDegree) * 120 + TicksPerDegree)
                       \div (2 * TicksPerDegree)
    IN  IF sign_index + 1 \in DOMAIN ZODIAC_SIGNS
        THEN Returns(<<[name |-> celestial_body_name,
                        absolute |-> RoundHalfEven(l),
                        minutes |-> minutes,
                        degrees |-> degrees,
                        sign |-> ZODIAC_SIGNS[sign_index + 1]]>>)
        ELSE Raises(Exc("IndexError", <<"list index out of range">>))

\* format_position with the degrees taken from the whole longitude, not
\* from the part inside the sign
format_position_WholeDegrees(celestial_body_name, l) ==
    LET sign_index == l \div (30 * TicksPerDegree)
        degrees_in_sign == l % (30 * TicksPerDegree)
        degrees == l \div TicksPerDegree
        minutes == ((degrees_in_sign - (degrees_in_sign \div TicksPerDegree) * TicksPerDegree) * 60)
                       \div TicksPerDegree
    IN  IF sign_index + 1 \in DOMAIN ZODIAC_SIGNS
        THEN Returns(<<[name |-> celestial_body_name,
                        absolute |-> RoundHalfEven(l),
                        minutes |-> minutes,
                        degrees |-> degrees,
                        sign |-> ZODIAC_SIGNS[sign_index + 1]]>>)
        ELSE Raises(Exc("IndexError", <<"list index out of range">>))

\* PositionFormatter.format_position: the fields of the string
format_position(celestial_body_name, l) ==
    LET sign_index == l \div (30 * TicksPerDegree)
        degrees_in_sign == l % (30 * TicksPerDegree)
        degrees == degrees_in_sign \div TicksPerDegree
        minutes == ((degrees_in_sign - degrees * TicksPerDegree) * 60) \div TicksPerDegree
    IN  IF sign_index + 1 \in DOMAIN ZODIAC_SIGNS
        THEN Returns(<<[name |-> celestial_body_name,
                        absolute |-> RoundHalfEven(l),
                        minutes |-> minutes,
                        degrees |-> degrees,
                        sign |-> ZODIAC_SIGNS[sign_index + 1]]>>)
        ELSE Raises(Exc("IndexError", <<"list index out of range">>))

\* what swe.calc and swe.houses_ex can give in the model
EphemerisValues ==
    { Lon(45 * TicksPerDegree + 1 - MaxTurns * Turn),
      Lon(MaxTurns * Turn - 1),
      NegTiny }
EphemerisErrors == {"swisseph.Error", "ValueError"}

CalcCall(id) == [fn |-> "calc", body |-> id, jd |-> julian_day[1], at |-> <<>>]
HousesCall == [fn |-> "houses_ex", body |-> -1, jd |-> julian_day[1], at |-> coordinates]

\* lines 71-78: the engine is built and the birth time converted
CalculateJulianDay ==
    /\ pc = "engine"
    /\ LET r == calculate_julian_day(birth_data[1])
       IN  IF r.raised
           THEN Raise(r.exc) /\ UNCHANGED julian_day
           ELSE /\ julian_day' = r.value
                /\ pc' = "planets"
                /\ UNCHANGED <<returned, escaped>>
    /\ UNCHANGED <<probe, probed, waits>>
    /\ UNCHANGED <<request, birth_data, queries, response, attempt, prompts,
                   lat_input, lon_input, coordinates, source, calls, results>>

\* lines 169-172 with Ketu as the mirror image of Rahu
lunar_node_longitudes_Mirror(x) ==
    LET rahu_longitude == Mod360(x)
        ketu_longitude == (Turn - rahu_longitude) % Turn
    IN  <<rahu_longitude, ketu_longitude>>

\* _calculate_lunar_nodes, lines 169-172: the longitudes of Rahu and Ketu
lunar_node_longitudes(x) ==
    LET rahu_longitude == Mod360(x)
        ketu_longitude == (rahu_longitude + 180 * TicksPerDegree) % Turn
    IN  <<rahu_longitude, ketu_longitude>>

\* _calculate_lunar_nodes returning Rahu alone
calculate_lunar_nodes_RahuOnly(x) == format_position("Rahu", Mod360(x))

\* _calculate_lunar_nodes once swe.calc has given x
calculate_lunar_nodes(x) ==
    LET rahu_result == format_position("Rahu", lunar_node_longitudes(x)[1])
        ketu_result == format_position("Ketu", lunar_node_longitudes(x)[2])
    IN  IF rahu_result.raised THEN rahu_result
        ELSE IF ketu_result.raised THEN ketu_result
        ELSE Returns(rahu_result.value \o ketu_result.value)

\* one pass of the loop of _calculate_planetary_positions once swe.calc has
\* given x: the strings to add to results
planet_pass(planet, x) ==
    IF planet.name = "Rahu"
    THEN calculate_lunar_nodes(x)
    ELSE format_position(planet.name, Mod360(x))

\* one pass of the loop of _calculate_planetary_positions
CalcBody ==
    /\ pc = "planets"
    /\ Len(calls) < Len(PLANETS)
    /\ LET planet == PLANETS[Len(calls) + 1]
       IN  /\ calls' = Append(calls, CalcCall(planet.id))
           /\ \/ \E x \in EphemerisValues :
                   LET r == planet_pass(planet, x)
                   IN  IF r.raised
                       THEN Raise(r.exc) /\ results' = <<>>
                       ELSE /\ results' = results \o r.value
                            /\ pc' = IF Len(calls) + 1 = Len(PLANETS)
                                     THEN "ascendant" ELSE "planets"
                            /\ UNCHANGED <<returned, escaped>>
              \/ \E c \in EphemerisErrors :
                   Raise(Exc(c, <<c>>)) /\ results' = <<>>
    /\ UNCHANGED <<probe, probed, waits>>
    /\ UNCHANGED <<request, birth_data, queries, response, attempt, prompts,
                   lat_input, lon_input, coordinates, source, julian_day>>

\* lines 83-88 of the calculator: the dict of a successful request
Success(positions) ==
    [success |-> TRUE, positions |-> positions, location |-> PlaceText,
     coordinates |-> coordinates]

\* _calculate_ascendant, the rest of calculate_positions and the return
CalculateAscendant ==
    /\ pc = "ascendant"
    /\ calls' = Append(calls, HousesCall)
    /\ \/ \E x \in EphemerisValues :
            LET r == format_position("Ascendant", Mod360(x))
            IN  IF r.raised
                THEN Raise(r.exc) /\ results' = <<>>
                ELSE /\ results' = results \o r.value
                     /\ returned' = <<Success(results \o r.value)>>
                     /\ escaped' = <<>>
                     /\ pc' = "done"
       \/ \E c \in EphemerisErrors :
            Raise(Exc(c, <<c>>)) /\ results' = <<>>
    /\ UNCHANGED <<probe, probed, waits>>
    /\ UNCHANGED <<request, birth_data, queries, response, attempt, prompts,
                   lat_input, lon_input, coordinates, source, julian_day>>

Next ==
    \/ ValidateBirthData
    \/ PolitenessWait
    \/ QueryNominatim
    \/ ReadLatitude
    \/ ReadLongitude
    \/ CalculateJulianDay
    \/ CalcBody
    \/ CalculateAscendant

Spec == Init /\ [][Next]_vars

(***************************************************************************)
(* The functions of the engine applied on their own, to every argument of  *)
(* a range: format_position, one pass over a body, _calculate_julian_day.  *)
(***************************************************************************)
\* the ninth pass is the ascendant
AscendantPass == Len(PLANETS) + 1

\* the longitudes that the pass over body i gives to format_position when
\* the ephemeris has given x (lines 149-151, 169-176, 207-209)
passed_longitudes(i, x) ==
    IF i = AscendantPass THEN <<Mod360(x)>>
    ELSE IF PLANETS[i].name = "Rahu" THEN lunar_node_longitudes(x)
    ELSE <<Mod360(x)>>

\* what the pass over body i adds to the results
pass_result(i, x) ==
    IF i = AscendantPass THEN format_position("Ascendant", Mod360(x))
    ELSE planet_pass(PLANETS[i], x)

FormatProbes == {[op |-> "format", l |-> l] : l \in 0..(Turn - 1)}

PassValues == {Lon(t) : t \in (0 - MaxTurns * Turn)..(MaxTurns * Turn)} \cup {NegTiny}

PassProbes == {[op |-> "pass", body |-> i, x |-> x] : i \in 1..AscendantPass, x \in PassValues}

\* birth moments that are real calendar dates
JulianProbes ==
    {[op |-> "julian", b |-> b] :
        b \in {c \in [year : {1900, 2000, 2023, 2024, 2100}, month : 1..12,
                      day : {1, 2, 28, 29, 30, 31}, hour : {0, 5, 6, 23},
                      minute : {0, 29, 30, 59}] :
                 c.day <= DaysInMonth(c.year, c.month)}}

InitPure ==
    /\ request = [birth_year |-> Text(1900), birth_month |-> Text(2),
                  birth_day |-> Text(1), birth_hour |-> Text(4),
                  birth_minute |-> Text(59), district |-> "kannur",
                  state |-> "kerala", country |-> "India", user_name |-> "User"]
    /\ pc = "probe"
    /\ birth_data = <<>>
    /\ waits = 0
    /\ queries = <<>>
    /\ response = <<>>
    /\ attempt = 0
    /\ prompts = <<>>
    /\ lat_input = <<>>
    /\ lon_input = <<>>
    /\ coordinates = <<>>
    /\ source = "none"
    /\ julian_day = <<>>
    /\ calls = <<>>
    /\ results = <<>>
    /\ returned = <<>>
    /\ escaped = <<>>
    /\ \/ probe \in {<<r>> : r \in FormatProbes}
       \/ probe \in {<<r>> : r \in PassProbes}
       \/ probe \in {<<r>> : r \in JulianProbes}
    /\ probed = <<>>

PureUnchanged ==
    UNCHANGED <<request, birth_data, waits, queries, response, attempt, prompts,
                lat_input, lon_input, coordinates, source, julian_day, calls,
                results, returned, escaped, probe>>

\* PositionFormatter.format_position applied to a longitude of [0, 360)
ProbeFormat ==
    /\ pc = "probe"
    /\ probe[1].op = "format"
    /\ probed' = <<format_position("Sun", probe[1].l)>>
    /\ pc' = "probed"
    /\ PureUnchanged

\* one pass over a body applied to a value of the ephemeris
ProbePass ==
    /\ pc = "probe"
    /\ probe[1].op = "pass"
    /\ probed' = <<[passed |-> passed_longitudes(probe[1].body, probe[1].x),
                    out |-> pass_result(probe[1].body, probe[1].x)]>>
    /\ pc' = "probed"
    /\ PureUnchanged

\* _calculate_julian_day applied to a birth moment
ProbeJulianDay ==
    /\ pc = "probe"
    /\ probe[1].op = "julian"
    /\ probed' = <<calculate_julian_day(probe[1].b)>>
    /\ pc' = "probed"
    /\ PureUnchanged

NextPure ==
    \/ ProbeFormat
    \/ ProbePass
    \/ ProbeJulianDay

SpecPure == InitPure /\ [][NextPure]_vars

(***************************************************************************)
(* The claims.                                                             *)
(***************************************************************************)
Done == pc = "done"
Failed == Done /\ Len(returned) = 1 /\ ~returned[1].success
Succeeded == Done /\ Len(returned) = 1 /\ returned[1].success
FailedWith(prefix) == Failed /\ returned[1].error[1] = prefix

\* C1 as stated: no error leaves calculate_planetary_positions, whatever
\* fails (an interrupt of a read included): every call that ends has
\* returned a dict with a boolean 'success'.
C1_NothingEscapes ==
    Done => /\ Len(returned) = 1
            /\ returned[1].success \in BOOLEAN
            /\ escaped = <<>>

\* C1 amended: every call that ends has either returned a dict with a
\* boolean 'success', or was left by a KeyboardInterrupt (the one failure
\* that "except Exception" does not catch) and by nothing else.
C1_OnlyInterruptEscapes ==
    Done => \/ /\ Len(returned) = 1
               /\ returned[1].success \in BOOLEAN
               /\ escaped = <<>>
            \/ /\ returned = <<>>
               /\ Len(escaped) = 1
               /\ escaped[1].cls = "KeyboardInterrupt"

\* the end of input met at a manual prompt came back as a result
C1_Witness ==
    /\ FailedWith(FailedPrefix)
    /\ returned[1].error = <<FailedPrefix, "EOFError">>
    /\ Len(prompts) > 0

BodyOrder ==
    <<"Sun", "Moon", "Mercury", "Venus", "Mars", "Jupiter", "Saturn", "Rahu",
      "Ketu", "Ascendant">>

\* C2: a result with success=true has exactly 10 positions, named Sun, Moon,
\* Mercury, Venus, Mars, Jupiter, Saturn, Rahu, Ketu, Ascendant in this order.
C2_TenPositionsInOrder ==
    (Len(returned) = 1 /\ returned[1].success) =>
        /\ Len(returned[1].positions) = 10
        /\ \A i \in 1..10 : returned[1].positions[i].name = BodyOrder[i]

\* a successful request whose ephemeris values were not all the same
C2_Witness ==
    /\ Succeeded
    /\ \E i, j \in DOMAIN returned[1].positions :
         returned[1].positions[i].sign # returned[1].positions[j].sign

FieldInvalid(t, lo, hi) == ~t.numeric \/ t.val < lo \/ t.val > hi

RequestInvalid ==
    \/ FieldInvalid(request.birth_year, 1900, 2100)
    \/ FieldInvalid(request.birth_month, 1, 12)
    \/ FieldInvalid(request.birth_day, 1, 31)
    \/ FieldInvalid(request.birth_hour, 0, 23)
    \/ FieldInvalid(request.birth_minute, 0, 59)

\* C3: when a birth field is non-numeric or out of its range, the request
\* ends with success=false and an error beginning 'Invalid birth data:', and
\* no geocoding query is sent, no manual prompt shown, no ephemeris call made.
C3_InvalidStopsEarly ==
    RequestInvalid =>
        /\ queries = <<>> /\ prompts = <<>> /\ calls = <<>>
        /\ pc \in {"validate", "done"}
        /\ Done => FailedWith(InvalidPrefix)

\* a request whose only fault is minute 60 has been refused
C3_Witness ==
    /\ FailedWith(InvalidPrefix)
    /\ request.birth_minute = Text(60)
    /\ ~FieldInvalid(request.birth_year, 1900, 2100)
    /\ ~FieldInvalid(request.birth_month, 1, 12)
    /\ ~FieldInvalid(request.birth_day, 1, 31)
    /\ ~FieldInvalid(request.birth_hour, 0, 23)

RequestFields ==
    <<request.birth_year, request.birth_month, request.birth_day,
      request.birth_hour, request.birth_minute>>

SomeFieldNotNumeric == \E i \in 1..5 : ~RequestFields[i].numeric

FieldRanges ==
    << <<"Year", 1900, 2100>>, <<"Month", 1, 12>>, <<"Day", 1, 31>>,
       <<"Hour", 0, 23>>, <<"Minute", 0, 59>> >>

OutOfRange(i) ==
    RequestFields[i].val < FieldRanges[i][2] \/ RequestFields[i].val > FieldRanges[i][3]

\* C5: when the five fields are integers, the error reported is that of the
\* first field, in the order year, month, day, hour, minute, that is out of
\* its range: it names the field, its bounds and its value.
C5_FirstViolationReported ==
    (Done /\ ~SomeFieldNotNumeric /\ \E i \in 1..5 : OutOfRange(i)) =>
        LET i == CHOOSE k \in 1..5 : OutOfRange(k) /\ \A j \in 1..5 : OutOfRange(j) => k <= j
        IN  /\ Failed
            /\ returned[1].error =
                 <<InvalidPrefix, FieldRanges[i][1], " must be between ",
                   ToString(FieldRanges[i][2]), " and ", ToString(FieldRanges[i][3]),
                   ", got ", ToString(RequestFields[i].val)>>

\* month 13 and day 32 together: the month is the one reported
C5_Witness ==
    /\ Failed
    /\ request.birth_year = Text(2100)
    /\ request.birth_month = Text(13)
    /\ request.birth_day = Text(32)
    /\ returned[1].error[2] = "Month"

\* a 'lat' or 'lon' member that is a number or the text of one
NumericMember(v) == v.json \in {"string", "number"} /\ v.text.numeric

\* the response is a non-empty array whose first element has a latitude and
\* a longitude within range
GoodOutcome(o) ==
    /\ o.kind = "array_of_object"
    /\ NumericMember(o.lat) /\ NumericMember(o.lon)
    /\ o.lat.text.val \in -90..90
    /\ o.lon.text.val \in -180..180

OutcomePair(o) ==
    <<[nan |-> FALSE, val |-> o.lat.text.val], [nan |-> FALSE, val |-> o.lon.text.val]>>

ExpectedQueries ==
    << <<request.district, ", ", request.state, ", ", request.country>>,
       <<request.district, ", ", request.country>>,
       <<request.state, ", ", request.country>> >>

QuerySent == queries' # queries

C6_State ==
    /\ Len(queries) <= 3
    /\ \A i \in 1..Len(queries) : queries[i] = ExpectedQueries[i]
    /\ source = "nominatim" =>
         /\ Len(response) = 1
         /\ GoodOutcome(response[1])
         /\ coordinates = OutcomePair(response[1])
    /\ (Len(prompts) > 0 \/ pc \in {"latitude", "longitude"}) =>
         /\ Len(queries) = 3
         /\ source # "nominatim"

C6_Step ==
    QuerySent =>
        /\ coordinates = <<>> /\ prompts = <<>>
        /\ Len(queries') = Len(queries) + 1
        /\ IF GoodOutcome(response'[1])
           THEN coordinates' = OutcomePair(response'[1]) /\ source' = "nominatim"
           ELSE coordinates' = <<>>

\* C6: get_coordinates sends at most 3 queries, '{district}, {state},
\* {country}' then '{district}, {country}' then '{state}, {country}'; the
\* first query that yields a coordinate within range gives the result and no
\* query follows it; manual entry starts only after three failed queries.
C6_QueryCascade == [](C6_State) /\ [][C6_Step]_vars

\* the first query failed and the second one gave the coordinate
C6_Witness ==
    /\ Len(queries) = 2
    /\ source = "nominatim"
    /\ coordinates = <<[nan |-> FALSE, val |-> -90], [nan |-> FALSE, val |-> -180]>>

\* a failure of one query as C7 lists them: anything but a coordinate within
\* range (and but an interrupt, which C7 does not list)
ListedFailure(o) == o.kind # "KeyboardInterrupt" /\ ~GoodOutcome(o)

\* C7 as stated: whatever failure a single query meets, the cascade goes on
\* to the next query (to manual entry after the third) and nothing leaves
\* get_coordinates.
C7_QueryFailureStaysLocal ==
    [][(QuerySent /\ ListedFailure(response'[1])) =>
          /\ pc' = IF Len(queries') = 3 THEN "latitude" ELSE "query"
          /\ returned' = <<>>
          /\ escaped' = <<>>]_vars

PromptOrder ==
    <<"Latitude", "Longitude", "Latitude", "Longitude", "Latitude", "Longitude">>

\* both texts are numbers within range
GoodTexts(lat, lon) ==
    /\ lat.numeric /\ lon.numeric
    /\ lat.val \in -90..90
    /\ lon.val \in -180..180

TextPair(lat, lon) == <<[nan |-> FALSE, val |-> lat.val], [nan |-> FALSE, val |-> lon.val]>>

\* the call ended because input() itself failed
ReadFailed ==
    /\ Done
    /\ \/ Len(escaped) = 1
       \/ Failed /\ returned[1].error = <<FailedPrefix, "EOFError">>

C8_State ==
    /\ attempt <= 3
    /\ Len(prompts) <= 6
    /\ \A i \in 1..Len(prompts) : prompts[i] = PromptOrder[i]
    /\ pc = "latitude" => attempt < 3 /\ Len(prompts) = 2 * attempt
    /\ pc = "longitude" => attempt < 3 /\ Len(prompts) = 2 * attempt + 1
    /\ source = "manual" =>
         /\ GoodTexts(lat_input[1], lon_input[1])
         /\ coordinates = TextPair(lat_input[1], lon_input[1])
         /\ Len(prompts) = 2 * (attempt + 1)

C8_Step ==
    /\ (source = "manual" \/ attempt = 3) => prompts' = prompts
    /\ (pc = "longitude" /\ Len(prompts') > Len(prompts) /\ ~ReadFailed') =>
         IF GoodTexts(lat_input[1], lon_input'[1])
         THEN /\ coordinates' = TextPair(lat_input[1], lon_input'[1])
              /\ source' = "manual"
              /\ attempt' = attempt
         ELSE /\ attempt' = attempt + 1
              /\ coordinates' = <<>>
              /\ IF attempt' = 3
                 THEN FailedWith(LocationPrefix)'
                 ELSE pc' = "latitude"

\* C8: manual entry makes at most 3 attempts, each reading a latitude then a
\* longitude; the first attempt whose two texts are non-empty, numbers and
\* within range gives the pair and nothing is prompted after it; any other
\* attempt uses up one attempt; after 3 failed attempts there is no
\* coordinate (the location is not resolved).
C8_ManualEntry == [](C8_State) /\ [][C8_Step]_vars

\* two attempts failed and the third one gave the pair
C8_Witness ==
    /\ source = "manual"
    /\ attempt = 2
    /\ Len(prompts) = 6

InRange(c) ==
    /\ Len(c) = 2
    /\ ~c[1].nan /\ ~c[2].nan
    /\ c[1].val \in -90..90
    /\ c[2].val \in -180..180

\* C9: a coordinate returned by get_coordinates, from Nominatim or from
\* manual entry, has -90 <= latitude <= 90 and -180 <= longitude <= 180, and
\* so has every coordinate given to the ascendant call.
C9_CoordinatesInRange ==
    /\ coordinates # <<>> => InRange(coordinates)
    /\ \A i \in DOMAIN calls : calls[i].fn = "houses_ex" => InRange(calls[i].at)

\* the ascendant was asked for a manually entered corner of the range
C9_Witness ==
    /\ source = "manual"
    /\ \E i \in DOMAIN calls :
         /\ calls[i].fn = "houses_ex"
         /\ calls[i].at = <<[nan |-> FALSE, val |-> 90], [nan |-> FALSE, val |-> -180]>>

\* C10 as stated: with valid birth data, when the three queries failed and
\* manual entry gave no coordinate, its attempts used up or its read having
\* failed, the result is success=false with 'Could not resolve location:'
\* followed by the district, the state and the country.
C10_UnresolvedIsReported ==
    (Done /\ ~RequestInvalid /\ Len(queries) = 3 /\ Len(prompts) > 0
          /\ coordinates = <<>> /\ escaped = <<>>) =>
        /\ Failed
        /\ returned[1].error =
             <<LocationPrefix, request.district, ", ", request.state, ", ",
               request.country>>

\* C11 as stated: when an ephemeris call fails, whatever it raises, the
\* request ends with success=false and an error beginning 'Calculation
\* failed:', and the result has no 'positions'.
C11_EphemerisFailureIsCalculationFailure ==
    (Done /\ Len(calls) > 0 /\ Len(returned) = 1 /\ ~returned[1].success) =>
        /\ returned[1].error[1] = FailedPrefix
        /\ "positions" \notin DOMAIN returned[1]

\* the fields are within their ranges but the day is not in the month
DateInvalid ==
    /\ ~RequestInvalid
    /\ request.birth_day.val >
         DaysInMonth(request.birth_year.val, request.birth_month.val)

C12_State ==
    /\ Len(calls) > 0 =>
         /\ ~RequestInvalid /\ ~DateInvalid
         /\ Len(birth_data) = 1
         /\ Len(coordinates) = 2
    /\ (Done /\ (RequestInvalid \/ DateInvalid \/ FailedWith(LocationPrefix))) =>
         calls = <<>>

C12_Step ==
    calls' # calls =>
        /\ Len(birth_data) = 1
        /\ Len(coordinates) = 2
        /\ Len(julian_day) = 1

\* C12: an ephemeris call is made only once validation has succeeded and a
\* coordinate is resolved; a request that ends with a validation failure or
\* with the location unresolved has made no ephemeris call.
C12_EphemerisOnlyAfterResolution == [](C12_State) /\ [][C12_Step]_vars

\* manual entry used up its attempts and no ephemeris call was made
C12_Witness ==
    /\ FailedWith(LocationPrefix)
    /\ attempt = 3
    /\ calls = <<>>

(***************************************************************************)
(* The formatted position read back: the index of the sign in the table    *)
(* and the angle in arc-minutes that sign, degree and minute stand for.    *)
(***************************************************************************)
SignIndexOf(p) == CHOOSE i \in 0..11 : ZODIAC_SIGNS[i + 1] = p.sign

AngleOf(p) == (30 * SignIndexOf(p) + p.degrees) * 60 + p.minutes

PassDone == pc = "probed" /\ probe[1].op = "pass"

NodesDone == PassDone /\ probe[1].body = 8 /\ ~probed[1].out.raised

\* C13: whenever the pass over the lunar node succeeds, the longitude
\* formatted for Ketu is the longitude formatted for Rahu plus 180 degrees
\* reduced modulo 360, Rahu's being the value of the ephemeris reduced
\* modulo 360; the two strings carry these angles to the arc-minute.
C13_KetuOppositeRahu ==
    NodesDone =>
        LET rahu == probed[1].passed[1]
            ketu == probed[1].passed[2]
            out  == probed[1].out.value
        IN  /\ Len(probed[1].passed) = 2
            /\ rahu = probe[1].x.ticks % Turn
            /\ ketu = (rahu + 180 * TicksPerDegree) % Turn
            /\ ketu \in 0..(Turn - 1)
            /\ Len(out) = 2
            /\ out[1].name = "Rahu" /\ out[2].name = "Ketu"
            /\ AngleOf(out[1]) = (60 * rahu) \div TicksPerDegree
            /\ AngleOf(out[2]) = (60 * ketu) \div TicksPerDegree

C13_Witness ==
    /\ NodesDone
    /\ probed[1].passed[1] > 180 * TicksPerDegree
    /\ probed[1].passed[2] < probed[1].passed[1]
    /\ probed[1].passed[2] % TicksPerDegree # 0

\* C14 as stated: whatever the ephemeris gives, negative values and values
\* of 360 or more included, every longitude that a pass over a body gives
\* to format_position lies in [0, 360), and the lookup in the table of
\* signs never leaves the table.
C14_PassedLongitudeInRange ==
    PassDone =>
        /\ \A k \in DOMAIN probed[1].passed : probed[1].passed[k] \in 0..(Turn - 1)
        /\ ~probed[1].out.raised

FormatDone == pc = "probed" /\ probe[1].op = "format"

\* the longitude in ticks left once the signs before it are taken away
InSign(l, p) == l - 30 * TicksPerDegree * SignIndexOf(p)

\* C15: for every longitude L of [0, 360), format_position gives the sign
\* of index floor(L / 30), an index of 0..11 into the table Aries..Pisces,
\* the degree floor(L mod 30) of 0..29 and the minute
\* floor(frac(L mod 30) * 60) of 0..59.
C15_SignDegreeMinute ==
    FormatDone =>
        /\ ~probed[1].raised
        /\ Len(probed[1].value) = 1
        /\ LET l == probe[1].l
               p == probed[1].value[1]
               frac == InSign(l, p) - p.degrees * TicksPerDegree
           IN  /\ \E i \in 0..11 :
                    /\ p.sign = ZODIAC_SIGNS[i + 1]
                    /\ 30 * TicksPerDegree * i <= l
                    /\ l < 30 * TicksPerDegree * (i + 1)
               /\ ZODIAC_SIGNS[1] = "Aries" /\ ZODIAC_SIGNS[12] = "Pisces"
               /\ Len(ZODIAC_SIGNS) = 12
               /\ p.degrees \in 0..29
               /\ p.degrees * TicksPerDegree <= InSign(l, p)
               /\ InSign(l, p) < (p.degrees + 1) * TicksPerDegree
               /\ p.minutes \in 0..59
               /\ p.minutes * TicksPerDegree <= 60 * frac
               /\ 60 * frac < (p.minutes + 1) * TicksPerDegree

\* a longitude in the last sign whose minutes are not whole
C15_Witness ==
    /\ FormatDone
    /\ ~probed[1].raised
    /\ probed[1].value[1].sign = "Pisces"
    /\ probed[1].value[1].degrees = 29
    /\ (60 * (probe[1].l % TicksPerDegree)) % TicksPerDegree # 0

\* C16: for every longitude L of [0, 360), the angle that sign, degree and
\* minute stand for, 30 * signIndex + degree + minute / 60, is at most L
\* and less than one minute of arc below it.
C16_ReconstructedWithinMinute ==
    (FormatDone /\ ~probed[1].raised) =>
        LET l == probe[1].l
            r == AngleOf(probed[1].value[1])
        IN  /\ r * TicksPerDegree <= 60 * l
            /\ 60 * l < (r + 1) * TicksPerDegree

\* a longitude that the fields do not reach and one that they do
C16_Witness ==
    /\ FormatDone
    /\ ~probed[1].raised
    /\ AngleOf(probed[1].value[1]) * TicksPerDegree < 60 * probe[1].l
    /\ SignIndexOf(probed[1].value[1]) > 0

\* C20 as stated: for every longitude L of [0, 360) the degrees of the
\* absolute field are floor(L) = 30 * signIndex + degree (its minutes are
\* the minutes of the in-sign field), so that both fields of the string
\* stand for the same angle.
C20_AbsoluteFieldIsFloor ==
    (FormatDone /\ ~probed[1].raised) =>
        LET p == probed[1].value[1]
        IN  /\ p.absolute = probe[1].l \div TicksPerDegree
            /\ p.absolute = 30 * SignIndexOf(p) + p.degrees

(***************************************************************************)
(* The calendar counted on its own: the days from 0001-01-01 to a date of  *)
(* the proleptic Gregorian calendar, and the minutes to a moment.          *)
(***************************************************************************)
LeapYear(y) == y % 400 = 0 \/ (y % 4 = 0 /\ y % 100 # 0)

DaysBeforeMonth(y, m) ==
    <<0, 31, 59, 90, 120, 151, 181, 212, 243, 273, 304, 334>>[m]
        + (IF m > 2 /\ LeapYear(y) THEN 1 ELSE 0)

DaysBeforeYear(y) ==
    365 * (y - 1) + ((y - 1) \div 4) - ((y - 1) \div 100) + ((y - 1) \div 400)

DayNumber(y, m, d) == DaysBeforeYear(y) + DaysBeforeMonth(y, m) + d

IsDate(y, m, d) ==
    /\ m \in 1..12
    /\ d >= 1
    /\ DayNumber(y, m, d) <= DaysBeforeYear(y) + (IF m = 12 THEN 365 + (IF LeapYear(y) THEN 1 ELSE 0)
                                                  ELSE DaysBeforeMonth(y, m + 1))

JulianDone == pc = "probed" /\ probe[1].op = "julian"

\* C17: for every birth moment that is a real calendar date, the moment
\* given to swe.julday is a real calendar date and time of day lying
\* exactly 5 hours 30 minutes before the birth moment, the date going back
\* one day, over the ends of months and years, when the local time is
\* before 05:30; the hour argument is hourUTC + minuteUTC / 60.
C17_InstantIsFiveThirtyEarlier ==
    JulianDone =>
        /\ ~probed[1].raised
        /\ LET b == probe[1].b
               u == probed[1].value[1]
           IN  /\ IsDate(u.year, u.month, u.day)
               /\ u.hour60 \in 0..(24 * 60 - 1)
               /\ DayNumber(u.year, u.month, u.day) * 24 * 60 + u.hour60
                    = DayNumber(b.year, b.month, b.day) * 24 * 60
                        + b.hour * 60 + b.minute - (5 * 60 + 30)
               /\ (b.hour * 60 + b.minute < 5 * 60 + 30) <=>
                    (DayNumber(u.year, u.month, u.day)
                        = DayNumber(b.year, b.month, b.day) - 1)

\* 1 March of a leap year at 05:29 is 29 February at 23:59
C17_Witness ==
    /\ JulianDone
    /\ probe[1].b = [year |-> 2024, month |-> 3, day |-> 1, hour |-> 5, minute |-> 29]
    /\ probed[1].value[1] = [year |-> 2024, month |-> 2, day |-> 29, hour60 |-> 23 * 60 + 59]

\* swe.SUN .. swe.SATURN and swe.MEAN_NODE, in the order of the claim
BodiesInOrder == <<0, 1, 2, 3, 4, 5, 6, 10>>

C18_State ==
    /\ Len(calls) <= Len(BodiesInOrder) + 1
    /\ \A k \in DOMAIN calls :
         /\ calls[k].jd = julian_day[1]
         /\ IF k <= Len(BodiesInOrder)
            THEN calls[k].fn = "calc" /\ calls[k].body = BodiesInOrder[k]
            ELSE calls[k].fn = "houses_ex" /\ calls[k].at = coordinates
    /\ Succeeded => Len(calls) = Len(BodiesInOrder) + 1
    /\ Succeeded => Len(returned[1].positions) = Len(BodiesInOrder) + 2
    /\ (Len(calls) > 0 /\ Len(calls) <= Len(BodiesInOrder) /\ pc # "done") =>
         pc \in {"planets", "ascendant"}

C18_Step ==
    calls' # calls =>
        /\ ~Done
        /\ Len(calls') = Len(calls) + 1
        /\ \A k \in DOMAIN calls : calls'[k] = calls[k]
        /\ (Done' /\ Failed') => Len(calls') <= Len(BodiesInOrder) + 1

\* C18: the ephemeris is called once for each of Sun, Moon, Mercury, Venus,
\* Mars, Jupiter, Saturn and the mean node, in this order, then once for the
\* ascendant, always with the same instant; a successful request has made
\* exactly these nine calls and returns ten positions, so that none is for
\* Ketu; a call that fails is the last call of the request.
C18_OneCallPerBody == [](C18_State) /\ [][C18_Step]_vars

C18_Witness ==
    /\ Succeeded
    /\ Len(calls) = 9
    /\ calls[8].body = 10
    /\ calls[9].fn = "houses_ex"
    /\ returned[1].positions[9].name = "Ketu"

C19_State ==
    /\ waits = Len(queries) + (IF pc = "request" THEN 1 ELSE 0)
    /\ pc = "request" => Len(queries) < 3

C19_Step ==
    /\ QuerySent =>
         /\ pc = "request"
         /\ waits = Len(queries) + 1
         /\ waits' = waits
    /\ waits' # waits =>
         /\ waits' = waits + 1
         /\ pc = "query" /\ pc' = "request"
         /\ queries' = queries
         /\ Len(queries) > 0 =>
              /\ Len(response) = 1
              /\ ~GoodOutcome(response[1])
              /\ coordinates = <<>>

\* C19: every request to the geocoding provider, the first included, comes
\* after a wait of its own (as many waits as requests, one more while a
\* request is due), and the wait of the next query starts only once the
\* request before it has come back without a usable coordinate.
C19_SequentialAndThrottled == [](C19_State) /\ [][C19_Step]_vars

\* three waits, three requests, all failed
C19_Witness ==
    /\ waits = 3
    /\ Len(queries) = 3
    /\ pc = "latitude"

\* every field is within its range, yet the date is not one of the calendar
NotACalendarDate ==
    /\ ~RequestInvalid
    /\ ~IsDate(request.birth_year.val, request.birth_month.val, request.birth_day.val)

C21_State ==
    NotACalendarDate =>
        /\ pc # "validate" => Len(birth_data) = 1
        /\ calls = <<>> /\ julian_day = <<>>
        /\ pc \notin {"planets", "ascendant"}
        /\ ~Succeeded
        /\ FailedWith(InvalidPrefix) =>
             /\ Len(coordinates) = 2
             /\ Len(queries) >= 1
        /\ (Done /\ Len(coordinates) = 2) =>
             /\ FailedWith(InvalidPrefix)
             /\ returned[1].error = <<InvalidPrefix, "day is out of range for month">>
             /\ "positions" \notin DOMAIN returned[1]

C21_Step ==
    (NotACalendarDate /\ pc = "validate") =>
        /\ pc' = "query"
        /\ queries' = <<>> /\ coordinates' = <<>>
        /\ returned' = <<>> /\ escaped' = <<>>

\* C21: a birth date whose fields are each within range but which is no
\* calendar date passes validation and goes on to the geocoding queries
\* (and to manual entry when they fail); once a coordinate is there, the
\* conversion of the instant fails and the request ends with success false
\* and an error beginning 'Invalid birth data: ', the ephemeris never
\* having been called.
C21_ImpossibleDateFailsAfterResolution == [](C21_State) /\ [][C21_Step]_vars

\* 31 February, three failed queries, the coordinate typed in
C21_Witness ==
    /\ NotACalendarDate
    /\ request.birth_month.val = 2 /\ request.birth_day.val = 31
    /\ FailedWith(InvalidPrefix)
    /\ Len(queries) = 3
    /\ source = "manual"
    /\ Len(coordinates) = 2
    /\ calls = <<>>
====
